---- MODULE Spec2Model ----
(***************************************************************************)
(* Toast notification lifecycle of the component library:                  *)
(*   - ToastProvider (src/src/context/ToastContext.tsx): the ordered       *)
(*     collection `toasts`, showToast, hideToast and the 500 ms removal    *)
(*     timer;                                                              *)
(*   - Toast (src/src/components/feedback/Toast.tsx): the per-record       *)
(*     component state isVisible / isLeaving, handleClose with its 300 ms  *)
(*     timer and the auto-close effect.                                    *)
(*                                                                         *)
(* React state setters are always called with functional updaters          *)
(* (prev => ...), which React applies in call order; an updater is         *)
(* modelled as applied in the step that calls the setter, and the render   *)
(* and effects it triggers are part of the same step.                      *)
(* Time is in milliseconds; a timer fires when the clock reaches its due   *)
(* time, timers due at the same instant fire in the order they were set.   *)
(***************************************************************************)
EXTENDS Integers, Sequences, FiniteSets, TLC

\* ------------------------------------------------------------------ bounds
MaxOps == 4
\* calls and clicks in the behaviours checked for liveness
MaxLiveOps == 3
MaxTime == 500
Quantum == 250

\* ------------------------------------------------------- program constants
DEFAULT_DURATION == 5000
REMOVE_DELAY == 500
CLOSE_DELAY == 300

\* an optional property that the caller left out (JavaScript undefined):
\* Omitted for a string property, NoDuration for the numeric one
Omitted == "undefined"
NoDuration == -1

\* Values Math.random().toString(36).substring(2, 9) can produce: nothing in
\* showToast compares the token with the identifiers already issued.
Ids == {"a", "b"}

\* Requests passed to showToast (ToastOptions).
Requests ==
  { [variant |-> Omitted, title |-> Omitted, description |-> "Form submitted successfully!",
     duration |-> NoDuration, action |-> Omitted],
    [variant |-> "success", title |-> "Saved", description |-> "ok",
     duration |-> 2000, action |-> "Undo"],
    [variant |-> Omitted, title |-> Omitted, description |-> "Form submitted successfully!",
     duration |-> 0, action |-> Omitted] }

VARIABLES
  toasts,   \* useState<ToastData[]>: the ordered collection
  comps,    \* state of the Toast mounted for each held record, by uid
  timers,   \* pending setTimeout callbacks, in the order they were set
  now,      \* clock, ms
  ops,      \* number of showToast and hideToast calls and close clicks so far
  last,     \* the operation performed by the latest step
  life,     \* history: per held record, when it was enqueued and dismissed
  gone,     \* history: identifiers of the records removed so far
  dropdown  \* the props and state of a Dropdown (the stories of the select)

vars == <<toasts, comps, timers, now, ops, last, life, gone, dropdown>>

\* no Dropdown is rendered
NoDropdown == [mounted |-> FALSE]

\* ------------------------------------------------------- pure helpers
\* JavaScript `x || dflt` for an optional string
OrElse(x, dflt) == IF x = Omitted \/ x = "" THEN dflt ELSE x

\* options.duration ?? 5000: the default only for an omitted duration
NumOrElseNullish(x, dflt) == IF x = NoDuration THEN dflt ELSE x

\* JavaScript `x || dflt` for an optional number
NumOrElse(x, dflt) == IF x = NoDuration \/ x = 0 THEN dflt ELSE x

\* The record showToast appends. uid is not a field of ToastData: it stands
\* for the identity of the record (the ordinal of the call that created it).
NewToast(options, id, uid) ==
  [id |-> id,
   variant |-> OrElse(options.variant, "info"),
   title |-> options.title,
   description |-> options.description,
   duration |-> NumOrElse(options.duration, DEFAULT_DURATION),
   action |-> options.action,
   visible |-> TRUE,
   uid |-> uid]

\* showToast spreading in the other order: prev => [record, ...prev]
PrependToast(prev, record) == <<record>> \o prev

\* prev => [...prev, record]
AppendToast(prev, record) == Append(prev, record)

\* hideToast with its comparison inverted (toast.id !== id)
HideMapOthers(prev, id) ==
  [i \in 1..Len(prev) |->
     IF prev[i].id # id THEN [prev[i] EXCEPT !.visible = FALSE] ELSE prev[i]]

\* hideToast without its comparison: every record is made closing
HideMapAll(prev, id) ==
  [i \in 1..Len(prev) |-> [prev[i] EXCEPT !.visible = FALSE]]

\* prev.map(toast => toast.id === id ? {...toast, visible: false} : toast)
HideMap(prev, id) ==
  [i \in 1..Len(prev) |->
     IF prev[i].id = id THEN [prev[i] EXCEPT !.visible = FALSE] ELSE prev[i]]

RECURSIVE RemoveFilterKeep(_, _)
\* a removal with its comparison inverted (toast.id === id)
RemoveFilterKeep(prev, id) ==
  IF prev = <<>> THEN <<>>
  ELSE (IF Head(prev).id = id THEN <<Head(prev)>> ELSE <<>>)
         \o RemoveFilterKeep(Tail(prev), id)

\* a removal that filters nothing out
RemoveFilterNone(prev, id) == prev

RECURSIVE RemoveFilter(_, _)
\* prev => prev.filter(toast => toast.id !== id)
RemoveFilter(prev, id) ==
  IF prev = <<>> THEN <<>>
  ELSE (IF Head(prev).id # id THEN <<Head(prev)>> ELSE <<>>)
       \o RemoveFilter(Tail(prev), id)

Uids(tsts) == {tsts[i].uid : i \in 1..Len(tsts)}

\* the held record with the given uid
ToastOf(tsts, uid) == CHOOSE t \in {tsts[i] : i \in 1..Len(tsts)} : t.uid = uid

WithId(tsts, id) == {tsts[i].uid : i \in {j \in 1..Len(tsts) : tsts[j].id = id}}

Held(id) == WithId(toasts, id) # {}

\* ------------------------------------------------------- Toast component
\* state of a Toast right after it mounts: useState(visible), useState(false)
MountToast == [isVisible |-> TRUE, isLeaving |-> FALSE]

\* effect [visible]: setIsVisible(visible); if (visible) setIsLeaving(false).
\* It runs when the prop changes; the provider only ever changes it to false.
FollowVisible(c, visible) ==
  IF visible THEN c ELSE [c EXCEPT !.isVisible = FALSE]

\* an auto-close effect that does not test duration
AutoArmedAnyDuration(c, duration) == c.isVisible /\ ~c.isLeaving

\* an auto-close effect that never arms its timer
AutoArmedNever(c, duration) == FALSE

\* condition under which the auto-close effect keeps its timer armed
AutoArmed(c, duration) == duration # 0 /\ c.isVisible /\ ~c.isLeaving

\* an auto-close effect without its cleanup: no timer is ever cleared
ClearAutoNever(ts, cs, tsts) == ts

RECURSIVE ClearAuto(_, _, _)
\* cleanup of the auto-close effect (clearTimeout) for every Toast that is
\* unmounted or no longer satisfies the effect's condition: the pending
\* timers ts without the auto-close timers of those Toasts
ClearAuto(ts, cs, tsts) ==
  IF ts = <<>> THEN <<>>
  ELSE LET t == Head(ts)
           live == \/ t.kind # "auto"
                   \/ /\ t.uid \in DOMAIN cs
                      /\ AutoArmed(cs[t.uid], ToastOf(tsts, t.uid).duration)
       IN (IF live THEN <<t>> ELSE <<>>) \o ClearAuto(Tail(ts), cs, tsts)

\* The Toasts rendered for the collection tsts, new ones mounted, the others
\* following their visible prop. One Toast per record: React keys them by
\* toast.id and does not support equal keys; each record is given its own.
Render(cs, tsts) ==
  [u \in Uids(tsts) |->
     IF u \in DOMAIN cs THEN FollowVisible(cs[u], ToastOf(tsts, u).visible)
     ELSE MountToast]

\* setTimeout called without its delay: the callback is due at once
TimerNoDelay(kind, id, uid, delay, hits) ==
  [kind |-> kind, id |-> id, uid |-> uid, due |-> now, hits |-> hits]

\* setTimeout(callback, delay). kind names the callback, id and uid are the
\* values its closure holds; hits (history) are the records that held id
\* when the timer was set.
Timer(kind, id, uid, delay, hits) ==
  [kind |-> kind, id |-> id, uid |-> uid, due |-> now + delay, hits |-> hits]

\* The timer queue of the event loop: by due time, and among timers due at
\* the same time in the order they were set.
SetTimeout(ts, t) ==
  LET n == Cardinality({k \in 1..Len(ts) : ts[k].due <= t.due})
  IN [j \in 1..(Len(ts) + 1) |->
        IF j <= n THEN ts[j] ELSE IF j = n + 1 THEN t ELSE ts[j - 1]]

\* the timer the event loop runs next: due now, and set before any other
\* timer that is due now
IsNext(k) ==
  /\ k \in 1..Len(timers)
  /\ timers[k].due = now
  /\ \A j \in 1..(k - 1) : timers[j].due # now

Without(ts, k) == [j \in 1..(Len(ts) - 1) |-> IF j < k THEN ts[j] ELSE ts[j + 1]]

\* the application and the user perform at most MaxOps operations (showToast
\* and hideToast calls, close clicks), all of them before MaxTime; the timers
\* then run to completion
CanAct == ops < MaxOps /\ now <= MaxTime

NoRequest ==
  [variant |-> Omitted, title |-> Omitted, description |-> Omitted,
   duration |-> NoDuration, action |-> Omitted]

Done(op, id, uid) == [op |-> op, id |-> id, uid |-> uid, req |-> NoRequest]

\* ------------------------------------------------------- history
\* no time: the record has not been dismissed
NotClosed == 0 - 1

\* a record is enqueued: own is whether only its own Toast will act on it
Born(l, uid, id) ==
  [u \in DOMAIN l \cup {uid} |->
     IF u = uid
     THEN [born |-> now, closed |-> NotClosed,
           own |-> \A k \in 1..Len(timers) :
                     timers[k].kind = "removal" => timers[k].id # id,
           calls |-> 0]
     ELSE l[u]]

\* the Toast of record uid invokes its onClose: calls counts the invocations
Called(l, uid) ==
  IF uid \in DOMAIN l THEN [l EXCEPT ![uid].calls = @ + 1] ELSE l

\* hideToast(id) runs, called by the Toast of record `by` (0: the application)
Dismissed(l, id, by) ==
  [u \in DOMAIN l |->
     IF u \in WithId(toasts, id)
     THEN [l[u] EXCEPT !.closed = IF ToastOf(toasts, u).visible THEN now ELSE @,
                       !.own = @ /\ u = by]
     ELSE l[u]]

\* ------------------------------------------------------- initial state
Init ==
  /\ toasts = <<>>
  /\ comps = <<>>
  /\ timers = <<>>
  /\ now = 0
  /\ ops = 0
  /\ last = Done("init", Omitted, 0)
  /\ life = <<>>
  /\ gone = {}
  /\ dropdown = NoDropdown

\* ------------------------------------------------------- operations
\* showToast(options), Math.random() giving the token id; returns id
ShowToast(options, id) ==
  /\ CanAct
  /\ LET uid == ops + 1
         rec == NewToast(options, id, uid)
     IN /\ toasts' = AppendToast(toasts, rec)
        /\ comps' = Render(comps, toasts')
        /\ timers' = IF uid \in DOMAIN comps' /\ AutoArmed(comps'[uid], rec.duration)
                     THEN SetTimeout(timers, Timer("auto", id, uid, rec.duration, {uid}))
                     ELSE timers
        /\ ops' = ops + 1
        /\ last' = [op |-> "showToast", id |-> id, uid |-> uid, req |-> options]
        /\ life' = Born(life, uid, id)
  /\ UNCHANGED <<now, gone, dropdown>>

\* body of hideToast(id): the map, the re-render of the Toasts, setTimeout;
\* cs and ts are the Toast states and the pending timers when it is called
HideEffect(id, cs, ts) ==
  /\ toasts' = HideMap(toasts, id)
  /\ comps' = Render(cs, toasts')
  /\ timers' = SetTimeout(ClearAuto(ts, comps', toasts'),
                          Timer("removal", id, 0, REMOVE_DELAY, WithId(toasts, id)))

\* hideToast(id) called by the application
HideToast(id) ==
  /\ CanAct
  /\ HideEffect(id, comps, timers)
  /\ last' = Done("hideToast", id, 0)
  /\ life' = Dismissed(life, id, 0)
  /\ ops' = ops + 1
  /\ UNCHANGED <<now, gone, dropdown>>

\* a handleClose that hides the Toast at once, with no exit animation
HandleCloseAtOnce(uid, ts) ==
  /\ comps' = [comps EXCEPT ![uid].isLeaving = TRUE, ![uid].isVisible = FALSE]
  /\ timers' = ClearAuto(ts, comps', toasts)
  /\ UNCHANGED toasts

\* a handleClose that starts the exit animation and sets no timer
HandleCloseLeaveOnly(uid, ts) ==
  /\ comps' = [comps EXCEPT ![uid].isLeaving = TRUE]
  /\ timers' = ClearAuto(ts, comps', toasts)
  /\ UNCHANGED toasts

\* handleClose of the Toast of record uid: setIsLeaving(true);
\* setTimeout(() => { setIsVisible(false); onClose() }, 300)
HandleClose(uid, ts) ==
  /\ comps' = [comps EXCEPT ![uid].isLeaving = TRUE]
  /\ timers' = SetTimeout(ClearAuto(ts, comps', toasts),
                          Timer("close", ToastOf(toasts, uid).id, uid, CLOSE_DELAY, {uid}))
  /\ UNCHANGED toasts

\* the user clicks the close button of a rendered Toast
ClickClose(uid) ==
  /\ uid \in DOMAIN comps
  /\ comps[uid].isVisible
  /\ CanAct
  /\ HandleClose(uid, timers)
  /\ last' = Done("click", ToastOf(toasts, uid).id, uid)
  /\ life' = [life EXCEPT ![uid].own = FALSE]
  /\ ops' = ops + 1
  /\ UNCHANGED <<now, gone, dropdown>>

\* the auto-close timer of a Toast fires: handleClose()
AutoClose(k) ==
  /\ IsNext(k)
  /\ timers[k].kind = "auto"
  /\ timers[k].uid \in DOMAIN comps
  /\ HandleClose(timers[k].uid, Without(timers, k))
  /\ last' = Done("auto", timers[k].id, timers[k].uid)
  /\ UNCHANGED <<now, ops, life, gone, dropdown>>

\* the 300 ms timer of handleClose fires: setIsVisible(false); onClose(),
\* onClose being () => hideToast(toast.id)
CloseTimeout(k) ==
  /\ IsNext(k)
  /\ timers[k].kind = "close"
  /\ LET uid == timers[k].uid
         cs == IF uid \in DOMAIN comps
               THEN [comps EXCEPT ![uid].isVisible = FALSE] ELSE comps
     IN HideEffect(timers[k].id, cs, Without(timers, k))
  /\ last' = Done("close", timers[k].id, timers[k].uid)
  /\ life' = Called(Dismissed(life, timers[k].id, timers[k].uid), timers[k].uid)
  /\ UNCHANGED <<now, ops, gone, dropdown>>

\* the 500 ms timer of hideToast fires: the filter, then the re-render
RemovalTimeout(k) ==
  /\ IsNext(k)
  /\ timers[k].kind = "removal"
  /\ LET id == timers[k].id
     IN /\ toasts' = RemoveFilter(toasts, id)
        /\ comps' = Render(comps, toasts')
        /\ timers' = ClearAuto(Without(timers, k), comps', toasts')
        /\ last' = Done("removal", id, 0)
        /\ life' = [u \in Uids(toasts') \cap DOMAIN life |-> life[u]]
        /\ gone' = IF Uids(toasts') # Uids(toasts) THEN gone \cup {id} ELSE gone
  /\ UNCHANGED <<now, ops, dropdown>>

\* time passes: to the instant the next timer is due, or (until MaxTime) by
\* a Quantum that does not pass a due timer
Advance ==
  /\ \A k \in 1..Len(timers) : timers[k].due > now
  /\ \E t \in {now + Quantum} \cup {timers[k].due : k \in 1..Len(timers)} :
       /\ \A k \in 1..Len(timers) : t <= timers[k].due
       /\ t <= MaxTime \/ \E k \in 1..Len(timers) : t = timers[k].due
       /\ now' = t
  /\ last' = Done("advance", Omitted, 0)
  /\ UNCHANGED <<toasts, comps, timers, ops, life, gone, dropdown>>

Next ==
  \/ \E options \in Requests, id \in Ids : ShowToast(options, id)
  \/ \E id \in Ids : HideToast(id)
  \/ \E uid \in 1..MaxOps : ClickClose(uid)
  \/ \E k \in 1..Len(timers) : AutoClose(k)
  \/ \E k \in 1..Len(timers) : CloseTimeout(k)
  \/ \E k \in 1..Len(timers) : RemovalTimeout(k)
  \/ Advance

Spec == Init /\ [][Next]_vars

\* the steps of the browser's timer queue: time passes and due timers fire
TimerStep ==
  \/ Advance
  \/ \E k \in 1..Len(timers) : AutoClose(k)
  \/ \E k \in 1..Len(timers) : CloseTimeout(k)
  \/ \E k \in 1..Len(timers) : RemovalTimeout(k)

\* the same steps with at most MaxLiveOps calls and clicks
LiveNext ==
  \/ ops < MaxLiveOps /\ \E options \in Requests, id \in Ids : ShowToast(options, id)
  \/ ops < MaxLiveOps /\ \E id \in Ids : HideToast(id)
  \/ ops < MaxLiveOps /\ \E uid \in 1..MaxLiveOps : ClickClose(uid)
  \/ TimerStep

\* scheduled timers eventually fire: the browser runs a timer once it is due,
\* and time does not stop
FairSpec == Init /\ [][LiveNext]_vars /\ WF_vars(TimerStep)

\* ------------------------------------------------------- useToast
\* useContext(ToastContext) outside a provider: the default of createContext
NoContext == [defined |-> FALSE, value |-> {}]

\* useContext(ToastContext) inside a ToastProvider: value={{ showToast,
\* hideToast }}
ProviderValue == [defined |-> TRUE, value |-> {"showToast", "hideToast"}]

USE_TOAST_ERROR == "useToast must be used within a ToastProvider"

\* a useToast that returns the context unchecked
UseToastUnchecked(context) == [error |-> Omitted, handle |-> context.value]

\* useToast: the error thrown (Omitted: none) and the handle returned
UseToast(context) ==
  IF ~context.defined THEN [error |-> USE_TOAST_ERROR, handle |-> {}]
  ELSE [error |-> Omitted, handle |-> context.value]

\* a component calls useToast while rendering, inside or outside a provider
CallUseToast(context) ==
  /\ last' = [op |-> "useToast", id |-> UseToast(context).error, uid |-> 0,
              req |-> NoRequest, inside |-> context.defined,
              handle |-> UseToast(context).handle]
  /\ UNCHANGED <<toasts, comps, timers, now, ops, life, gone, dropdown>>

HookNext ==
  \/ LiveNext
  \/ \E context \in {NoContext, ProviderValue} : CallUseToast(context)

HookSpec == Init /\ [][HookNext]_vars

\* ------------------------------------------- a Toast outside the provider
\* The Toast of the stories (Toast.stories.tsx): one element rendered from
\* args, with no onClose. toasts holds the props of that one element, comps
\* the state of its Toast, timers its timers; ops counts the clicks and the
\* changes of args.
StoryUid == 1

\* the args of the stories: the defaults of the file (closable, duration
\* 5000, visible), NonClosable (closable false, duration 0), CustomDuration
\* (duration 2000), and the controls closable and visible set otherwise
StoryArgs ==
  { [closable |-> c, duration |-> d, visible |-> v] :
      c \in BOOLEAN, d \in {0, 2000, DEFAULT_DURATION}, v \in BOOLEAN }

\* the props the Toast is rendered with
StoryProps(args) ==
  [id |-> Omitted, uid |-> StoryUid, closable |-> args.closable,
   duration |-> args.duration, visible |-> args.visible]

\* useState(visible), useState(false)
MountWith(visible) == [isVisible |-> visible, isLeaving |-> FALSE]

\* an effect [visible] that leaves isLeaving as it is
VisibleEffectNoReset(c, visible) == [c EXCEPT !.isVisible = visible]

\* effect [visible], run when the prop has changed:
\* setIsVisible(visible); if (visible) setIsLeaving(false)
VisibleEffect(c, visible) ==
  IF visible THEN [isVisible |-> TRUE, isLeaving |-> FALSE]
  ELSE [c EXCEPT !.isVisible = FALSE]

RECURSIVE DropAuto(_, _)
\* clearTimeout(timer) of the auto-close effect of Toast uid
DropAuto(ts, uid) ==
  IF ts = <<>> THEN <<>>
  ELSE (IF Head(ts).kind = "auto" /\ Head(ts).uid = uid THEN <<>>
        ELSE <<Head(ts)>>) \o DropAuto(Tail(ts), uid)

\* the auto-close effect of Toast uid run for state c: its timer is armed
\* when the condition holds
ArmAuto(ts, c, id, uid, duration) ==
  IF AutoArmed(c, duration)
  THEN SetTimeout(ts, Timer("auto", id, uid, duration, {uid}))
  ELSE ts

ToastInit ==
  /\ now = 0
  /\ \E args \in StoryArgs :
       /\ toasts = <<StoryProps(args)>>
       /\ comps = [u \in {StoryUid} |-> MountWith(args.visible)]
       /\ timers = ArmAuto(<<>>, MountWith(args.visible), Omitted, StoryUid,
                           args.duration)
  /\ ops = 0
  /\ last = Done("init", Omitted, 0)
  /\ life = [u \in {StoryUid} |->
              [born |-> 0, closed |-> NotClosed, own |-> TRUE, calls |-> 0]]
  /\ gone = {}
  /\ dropdown = NoDropdown

\* a click on the close button, rendered when closable: handleClose
StoryClick ==
  /\ toasts[1].closable
  /\ comps[StoryUid].isVisible
  /\ CanAct
  /\ HandleClose(StoryUid, timers)
  /\ last' = Done("click", Omitted, StoryUid)
  /\ ops' = ops + 1
  /\ UNCHANGED <<now, life, gone, dropdown>>

\* the 300 ms timer of handleClose: setIsVisible(false); if (onClose)
\* onClose(). The stories pass no onClose; the step is counted as the
\* invocation
StoryCloseTimeout(k) ==
  /\ IsNext(k)
  /\ timers[k].kind = "close"
  /\ comps' = [comps EXCEPT ![StoryUid].isVisible = FALSE]
  /\ timers' = ClearAuto(Without(timers, k), comps', toasts)
  /\ last' = Done("close", Omitted, StoryUid)
  /\ life' = Called(life, StoryUid)
  /\ UNCHANGED <<toasts, now, ops, gone, dropdown>>

\* the visible control is switched: the effect [visible] runs, and the
\* auto-close effect runs again when isVisible or isLeaving has changed
SetVisible(v) ==
  /\ toasts[1].visible # v
  /\ CanAct
  /\ toasts' = [toasts EXCEPT ![1].visible = v]
  /\ comps' = [comps EXCEPT ![StoryUid] = VisibleEffect(@, v)]
  /\ timers' = IF comps'[StoryUid] = comps[StoryUid] THEN timers
               ELSE ArmAuto(DropAuto(timers, StoryUid), comps'[StoryUid],
                            Omitted, StoryUid, toasts[1].duration)
  /\ last' = Done("setVisible", Omitted, StoryUid)
  /\ ops' = ops + 1
  /\ UNCHANGED <<now, life, gone, dropdown>>

ToastNext ==
  \/ StoryClick
  \/ \E v \in BOOLEAN : SetVisible(v)
  \/ \E k \in 1..Len(timers) : AutoClose(k)
  \/ \E k \in 1..Len(timers) : StoryCloseTimeout(k)
  \/ Advance

ToastSpec == ToastInit /\ [][ToastNext]_vars

\* ------------------------------------------------------- Dropdown
\* The Dropdown of the stories: rendered with args, value held by the story
\* (useState) and onChange={setValue}. Indices are those of the code, from 0;
\* option i of the code is options[i + 1] here.
Opt(v, d) == [value |-> v, disabled |-> d]

\* the options of the stories (three options; the second one disabled in
\* WithDisabledOptions), a single option, and the empty list, for which the
\* menu shows 'No options available'
OptionLists ==
  { <<>>,
    <<Opt("option1", FALSE)>>,
    <<Opt("option1", FALSE), Opt("option2", FALSE), Opt("option3", FALSE)>>,
    <<Opt("option1", FALSE), Opt("option2", TRUE), Opt("option3", FALSE)>> }

\* the initial values of the stories
StoryValues == {"", "option1", "option2"}

\* useState(-1) of focusedIndex
Unfocused == 0 - 1

\* no index: handleSelect was not called
NoIndex == 0 - 2

\* props, with the value of the story, and state after the first render
MountDropdown(options, value, disabled, clearable) ==
  [mounted |-> TRUE, options |-> options, value |-> value,
   disabled |-> disabled, clearable |-> clearable,
   isOpen |-> FALSE, focusedIndex |-> Unfocused]

\* options.findIndex(option => option.value === value)
FindIndex(options, value) ==
  IF \E i \in 1..Len(options) : options[i].value = value
  THEN (CHOOSE i \in 1..Len(options) :
          /\ options[i].value = value
          /\ \A j \in 1..(i - 1) : options[j].value # value) - 1
  ELSE 0 - 1

\* selectedIndex >= 0 ? selectedIndex : 0
OpenIndex(options, value) ==
  IF FindIndex(options, value) >= 0 THEN FindIndex(options, value) ELSE 0

\* the effect [isOpen, options, value]: if (isOpen) setFocusedIndex(...)
ResetFocus(d) ==
  IF d.isOpen THEN [d EXCEPT !.focusedIndex = OpenIndex(d.options, d.value)]
  ELSE d

\* an ArrowDown that wraps one step late
ArrowDownLate(prev, n) == IF prev <= n - 1 THEN prev + 1 ELSE 0

\* prev < options.length - 1 ? prev + 1 : 0
ArrowDown(prev, n) == IF prev < n - 1 THEN prev + 1 ELSE 0

\* prev > 0 ? prev - 1 : options.length - 1
ArrowUp(prev, n) == IF prev > 0 THEN prev - 1 ELSE n - 1

\* a button that ignores disabled
ToggleAlways(disabled, isOpen) == ~isOpen

\* onClick of the button: !disabled && setIsOpen(!isOpen)
Toggle(disabled, isOpen) == IF disabled THEN isOpen ELSE ~isOpen

\* a handleSelect that does not test option.disabled
CallsOnChangeAlways(option) == TRUE

\* handleSelect: !option.disabled && onChange
CallsOnChange(option) == ~option.disabled

\* the event handled by the latest step: the index of the option handed to
\* handleSelect, the value handed to onChange, and whether the handler threw
DropdownDone(op, selected, changed, threw) ==
  [op |-> op, selected |-> selected, changed |-> changed, threw |-> threw]

ToastVars == <<toasts, comps, timers, now, ops, life, gone>>

DropdownInit ==
  /\ toasts = <<>>
  /\ comps = <<>>
  /\ timers = <<>>
  /\ now = 0
  /\ ops = 0
  /\ life = <<>>
  /\ gone = {}
  /\ last = DropdownDone("mount", NoIndex, Omitted, FALSE)
  /\ \E options \in OptionLists, value \in StoryValues,
        disabled \in BOOLEAN, clearable \in BOOLEAN :
       dropdown = MountDropdown(options, value, disabled, clearable)

\* onClick of the button; the effect on isOpen runs when isOpen changed
ClickButton ==
  /\ dropdown.mounted
  /\ dropdown' =
       IF Toggle(dropdown.disabled, dropdown.isOpen) = dropdown.isOpen
       THEN dropdown
       ELSE ResetFocus([dropdown EXCEPT
                          !.isOpen = Toggle(dropdown.disabled, dropdown.isOpen)])
  /\ last' = DropdownDone("clickButton", NoIndex, Omitted, FALSE)
  /\ UNCHANGED ToastVars

\* handleSelect(options[i]) called by op: onChange (the story's setValue)
\* unless the option is disabled, then setIsOpen(false)
HandleSelect(op, i) ==
  LET option == dropdown.options[i + 1] IN
  /\ dropdown' = [dropdown EXCEPT
                    !.value = IF CallsOnChange(option) THEN option.value ELSE @,
                    !.isOpen = FALSE]
  /\ last' = DropdownDone(op, i,
                IF CallsOnChange(option) THEN option.value ELSE Omitted, FALSE)

\* onClick of an option: !option.disabled && handleSelect(option)
ClickOption(i) ==
  /\ dropdown.mounted
  /\ dropdown.isOpen
  /\ i \in 0..(Len(dropdown.options) - 1)
  /\ IF dropdown.options[i + 1].disabled
     THEN /\ dropdown' = dropdown
          /\ last' = DropdownDone("clickOption", NoIndex, Omitted, FALSE)
     ELSE HandleSelect("clickOption", i)
  /\ UNCHANGED ToastVars

\* handleKeyDown, ArrowDown and ArrowUp
PressArrow(key) ==
  /\ dropdown.mounted
  /\ dropdown.isOpen
  /\ dropdown' = [dropdown EXCEPT !.focusedIndex =
                    IF key = "ArrowDown"
                    THEN ArrowDown(@, Len(dropdown.options))
                    ELSE ArrowUp(@, Len(dropdown.options))]
  /\ last' = DropdownDone(key, NoIndex, Omitted, FALSE)
  /\ UNCHANGED ToastVars

\* handleKeyDown, Enter and ' ': if (focusedIndex >= 0)
\* handleSelect(options[focusedIndex]); options[focusedIndex] is undefined
\* past the end of the list and handleSelect throws on option.disabled
PressSelect(key) ==
  /\ dropdown.mounted
  /\ dropdown.isOpen
  /\ IF dropdown.focusedIndex >= 0
     THEN IF dropdown.focusedIndex < Len(dropdown.options)
          THEN HandleSelect(key, dropdown.focusedIndex)
          ELSE /\ dropdown' = dropdown
               /\ last' = DropdownDone(key, dropdown.focusedIndex, Omitted, TRUE)
     ELSE /\ dropdown' = dropdown
          /\ last' = DropdownDone(key, NoIndex, Omitted, FALSE)
  /\ UNCHANGED ToastVars

\* handleKeyDown, Escape and Tab: setIsOpen(false)
PressClose(key) ==
  /\ dropdown.mounted
  /\ dropdown.isOpen
  /\ dropdown' = [dropdown EXCEPT !.isOpen = FALSE]
  /\ last' = DropdownDone(key, NoIndex, Omitted, FALSE)
  /\ UNCHANGED ToastVars

\* handleClickOutside: a mousedown outside the component
MouseDownOutside ==
  /\ dropdown.mounted
  /\ dropdown' = [dropdown EXCEPT !.isOpen = FALSE]
  /\ last' = DropdownDone("mouseDownOutside", NoIndex, Omitted, FALSE)
  /\ UNCHANGED ToastVars

\* handleClear, on the button rendered when clearable && value: the stories
\* reset the value to ''; the effect on value runs while the menu is open
ClickClear ==
  /\ dropdown.mounted
  /\ dropdown.clearable
  /\ dropdown.value # ""
  /\ dropdown' = ResetFocus([dropdown EXCEPT !.value = ""])
  /\ last' = DropdownDone("clickClear", NoIndex, "", FALSE)
  /\ UNCHANGED ToastVars

DropdownNext ==
  \/ ClickButton
  \/ \E i \in 0..(Len(dropdown.options) - 1) : ClickOption(i)
  \/ \E key \in {"ArrowDown", "ArrowUp"} : PressArrow(key)
  \/ \E key \in {"Enter", " "} : PressSelect(key)
  \/ \E key \in {"Escape", "Tab"} : PressClose(key)
  \/ MouseDownOutside
  \/ ClickClear

DropdownSpec == DropdownInit /\ [][DropdownNext]_vars

\* ------------------------------------------------------- claims
Idx(seq) == 1..Len(seq)

Removals(ts) == {k \in Idx(ts) : ts[k].kind = "removal"}

\* the pending removal timers set by a hideToast call that found record u
RemovalsOf(ts, u) == {k \in Removals(ts) : u \in ts[k].hits}

\* the steps in which hideToast(id) runs: called by the application, or as
\* onClose by the 300 ms timer of a Toast
HideOps == {"hideToast", "close"}

\* C1: showToast(request) appends exactly one record at the end, visible, with
\* title, description and action of the request, the request's variant or
\* 'info' when omitted, the request's duration or 5000 when omitted; the
\* records held before are unchanged in place; the returned id is the id of
\* the appended record.
C1_ShowToastAppendsRequest ==
  [][last'.op = "showToast" =>
       LET req == last'.req
           r == toasts'[Len(toasts')]
       IN /\ Len(toasts') = Len(toasts) + 1
          /\ \A i \in Idx(toasts) : toasts'[i] = toasts[i]
          /\ r.visible
          /\ r.title = req.title
          /\ r.description = req.description
          /\ r.action = req.action
          /\ r.variant = (IF req.variant = Omitted THEN "info" ELSE req.variant)
          /\ r.duration = (IF req.duration = NoDuration THEN 5000 ELSE req.duration)
          /\ r.id = last'.id]_vars

\* C2: no two held records have the same identifier (so the identifier
\* showToast returns differs from that of every other held record).
C2_UniqueIds ==
  \A i, j \in Idx(toasts) : i # j => toasts[i].id # toasts[j].id

\* C3: hideToast(id) on a held visible record makes that record closing
\* (visible = false) in the step of the call.
C3_HideClosesAtOnce ==
  [][last'.op \in HideOps =>
       \A i \in Idx(toasts) :
         toasts[i].id = last'.id /\ toasts[i].visible =>
           /\ i \in Idx(toasts')
           /\ toasts'[i].uid = toasts[i].uid
           /\ ~toasts'[i].visible]_vars

\* a hideToast call by the application has just made a visible record
\* closing: the only removal timer for the record is the one it set
C3_Witness ==
  /\ last.op = "hideToast"
  /\ \E u \in WithId(toasts, last.id) :
       /\ ~ToastOf(toasts, u).visible
       /\ life[u].closed = now
       /\ Cardinality(RemovalsOf(timers, u)) = 1

\* C4: hideToast(id) with an identifier no record holds leaves the collection
\* unchanged, at the call and when the timer it set fires 500 ms later.
C4_UnknownIdNoOp ==
  [][/\ last'.op \in HideOps /\ ~Held(last'.id) => toasts' = toasts
     /\ \A k \in Idx(timers) :
          IsNext(k) /\ last'.op = "removal" /\ timers[k].hits = {}
            => toasts' = toasts]_vars

\* C5: after hideToast(id) took effect on a visible record, the record stays
\* held and closing during the 500 ms grace interval, is not removed before
\* the interval has elapsed and is not held after the removal timer fired.
C5_GraceInterval ==
  [][\A u \in Uids(toasts) :
       life[u].closed # NotClosed =>
         IF u \in Uids(toasts')
         THEN /\ ~ToastOf(toasts', u).visible
              /\ now' <= life[u].closed + 500
              /\ last'.op = "removal" => ~IsNext(CHOOSE k \in RemovalsOf(timers, u) :
                                           \A j \in RemovalsOf(timers, u) : k <= j)
         ELSE now >= life[u].closed + 500]_vars

\* C6: when hideToast(id) is called twice on a held record within the grace
\* interval, one removal is scheduled for the record and not two, the record
\* is removed once, 500 ms after the first call, and no record with that
\* identifier is held at any later time.
C6_OneRemoval ==
  [][/\ \A u \in Uids(toasts') : Cardinality(RemovalsOf(timers', u)) <= 1
     /\ \A u \in Uids(toasts) \ Uids(toasts') : now = life[u].closed + 500
     /\ \A id \in gone' : WithId(toasts', id) = {}]_vars

\* C7: hideToast(id) on a record that is already closing changes neither the
\* collection nor the pending removal timers.
C7_HideClosingNoOp ==
  [][/\ last'.op \in HideOps
     /\ Held(last'.id)
     /\ \A u \in WithId(toasts, last'.id) : ~ToastOf(toasts, u).visible
     => /\ toasts' = toasts
        /\ {timers'[k] : k \in Removals(timers')} = {timers[k] : k \in Removals(timers)}
        /\ Cardinality(Removals(timers')) = Cardinality(Removals(timers))]_vars

\* C8: a closing record never becomes visible again, and once a record has
\* been removed no record with its identifier is held again.
C8_ForwardOnly ==
  [][/\ \A u \in Uids(toasts) \cap Uids(toasts') :
          ~ToastOf(toasts, u).visible => ~ToastOf(toasts', u).visible
     /\ \A id \in gone' : WithId(toasts', id) = {}]_vars

\* C9: the collection is in insertion order: of two held records the one
\* enqueued first comes first.
C9_InsertionOrder ==
  \A i, j \in Idx(toasts) : i < j => toasts[i].uid < toasts[j].uid

\* three records were enqueued and a removal timer has just deleted one of
\* them, leaving two
C9_Witness ==
  /\ last.op = "removal"
  /\ Len(toasts) = 2
  /\ gone # {}
  /\ \E u \in Uids(toasts) : ~ToastOf(toasts, u).visible

\* a held record on which only its own Toast has acted: no close click, no
\* hideToast call with its identifier but the one of its own auto-close, no
\* removal timer for its identifier pending when it was enqueued
Own(u) == u \in DOMAIN life /\ life[u].own

\* the times of an undisturbed record with duration d that turns closing
\* `lag` ms after d has elapsed and is removed 500 ms after that
OnSchedule(lag) ==
  \A u \in Uids(toasts) :
    Own(u) =>
      LET t == ToastOf(toasts, u)
          closing == life[u].born + t.duration + lag
      IN /\ t.visible => life[u].closed = NotClosed /\ now <= closing
         /\ ~t.visible => life[u].closed = closing
         /\ now <= closing + 500

\* the removal of an undisturbed record happens 500 ms after `lag` ms after
\* its duration
RemovedOnSchedule(lag) ==
  \A u \in Uids(toasts) \ Uids(toasts') :
    Own(u) => now = life[u].born + ToastOf(toasts, u).duration + lag + 500

Autos(ts) == {k \in Idx(ts) : ts[k].kind = "auto"}

\* record u has been dismissed explicitly: its close button was clicked, or
\* hideToast made it closing
SupersededIn(cs, tsts, u) ==
  \/ u \notin DOMAIN cs
  \/ cs[u].isLeaving \/ ~cs[u].isVisible \/ ~ToastOf(tsts, u).visible

Superseded(u) == SupersededIn(comps, toasts, u)

\* C11: once a record is dismissed explicitly (hideToast with its id, or a
\* click on its close button) its auto-close timer is no longer pending, the
\* auto-close callback only ever runs for a Toast that is visible and not
\* leaving, of a visible record, and the instant at which a held record
\* became closing never changes.
C11_AutoSuperseded ==
  [][/\ \A k \in Autos(timers') : ~SupersededIn(comps', toasts', timers'[k].uid)
     /\ last'.op = "auto" =>
          /\ comps[last'.uid].isVisible /\ ~comps[last'.uid].isLeaving
          /\ ToastOf(toasts, last'.uid).visible
     /\ \A u \in Uids(toasts) \cap Uids(toasts') :
          life[u].closed # NotClosed => life'[u].closed = life[u].closed]_vars

\* a record whose auto-close timer was pending is dismissed explicitly, and
\* the timer is gone
C11_Witness ==
  /\ last.op \in {"hideToast", "click"}
  /\ \E u \in Uids(toasts) :
       /\ ToastOf(toasts, u).id = last.id
       /\ Superseded(u)
       /\ life[u].born + ToastOf(toasts, u).duration > now
       /\ \A k \in Autos(timers) : timers[k].uid # u

\* record u is held and closing
Closing(u) == u \in Uids(toasts) /\ ~ToastOf(toasts, u).visible

\* C12: every record that becomes closing is eventually removed from the
\* collection, whatever showToast and hideToast calls follow, provided the
\* scheduled timers eventually fire.
C12_ClosingIsRemoved ==
  \A u \in 1..MaxLiveOps : Closing(u) ~> (u \notin Uids(toasts))

\* a closing record is removed by a removal timer after a later showToast or
\* hideToast call
C12_Witness ==
  /\ last.op = "removal"
  /\ last.id \in gone
  /\ ~Held(last.id)
  /\ ops >= 3

\* C13: every record enqueued by showToast is eventually removed from the
\* collection, also when hideToast is never called and no close button is
\* clicked, provided the scheduled timers eventually fire; and a record that
\* was never dismissed explicitly is closing when it is removed, as after
\* an explicit hideToast.
C13_EveryToastEnds ==
  /\ \A u \in 1..MaxLiveOps : (u \in Uids(toasts)) ~> (u \notin Uids(toasts))
  /\ [][\A u \in Uids(toasts) \ Uids(toasts') :
          life[u].own => ~ToastOf(toasts, u).visible]_vars

\* a record with a positive duration is gone after its auto-close timer,
\* its 300 ms close timer and its removal timer, with no click and no
\* hideToast call by the application
C13_Witness ==
  /\ last.op = "removal"
  /\ last.id \in gone
  /\ toasts = <<>>
  /\ ops = 1
  /\ \E r \in Requests :
       r.duration > 0 /\ now = r.duration + CLOSE_DELAY + REMOVE_DELAY

\* the indices of the records of tsts whose identifier is not id
Others(tsts, id) == {i \in Idx(tsts) : tsts[i].id # id}

\* C14: a step that runs hideToast(id) keeps the length of the collection,
\* leaves every record with another identifier as it is and changes nothing
\* but the visible field of the records with that identifier; the removal
\* timer of id leaves exactly the records with another identifier, unchanged
\* and in their order; every other step but showToast leaves the collection
\* as it is.
C14_FrameOfHideAndRemoval ==
  [][/\ last'.op \in HideOps =>
          /\ Len(toasts') = Len(toasts)
          /\ \A i \in Idx(toasts) :
               IF toasts[i].id = last'.id
               THEN toasts'[i] = [toasts[i] EXCEPT !.visible = toasts'[i].visible]
               ELSE toasts'[i] = toasts[i]
     /\ last'.op = "removal" =>
          /\ Len(toasts') = Cardinality(Others(toasts, last'.id))
          /\ \A i \in Others(toasts, last'.id) :
               toasts'[Cardinality({j \in Others(toasts, last'.id) : j <= i})]
                 = toasts[i]
     /\ last'.op \in {"click", "auto", "advance"} => toasts' = toasts]_vars

\* A was enqueued before B, A is dismissed and removed, and the collection
\* is [B], B visible as it was enqueued
C14_Witness ==
  /\ last.op = "removal"
  /\ last.id \in gone
  /\ Len(toasts) = 1
  /\ toasts[1].uid = 2
  /\ toasts[1].id # last.id
  /\ toasts[1].visible

\* C15: showToast with a request duration of 0 stores a record with duration
\* 5000, as for an omitted duration; no held record has duration 0; and the
\* Toast of the new record has its auto-close timer armed, due 5000 ms later.
C15_ZeroDurationIsDefault ==
  [][/\ \A i \in Idx(toasts') : toasts'[i].duration # 0
     /\ (last'.op = "showToast" /\ last'.req.duration \in {0, NoDuration}) =>
          /\ toasts'[Len(toasts')].duration = DEFAULT_DURATION
          /\ \E k \in Autos(timers') :
               /\ timers'[k].uid = last'.uid
               /\ timers'[k].due = now + DEFAULT_DURATION]_vars

\* showToast was called with duration 0
C15_Witness ==
  /\ last.op = "showToast"
  /\ last.req.duration = 0
  /\ toasts[Len(toasts)].uid = last.uid

\* C16: a Toast rendered with duration 0 never has an auto-close timer
\* armed; as long as its close button is not clicked and its visible prop
\* does not change, it has no timer at all, keeps the state it mounted with
\* (visible, not leaving, when rendered visible), and neither the auto-close
\* callback nor the 300 ms callback that invokes onClose has run.
C16_ZeroDurationStays ==
  toasts[1].duration = 0 =>
    /\ Autos(timers) = {}
    /\ ops = 0 =>
         /\ timers = <<>>
         /\ comps[StoryUid] = MountWith(toasts[1].visible)
         /\ last.op \notin {"auto", "close"}

\* a Toast rendered visible with duration 0 and left alone is still
\* visible when MaxTime has passed
C16_Witness ==
  /\ toasts[1].duration = 0
  /\ toasts[1].visible
  /\ ops = 0
  /\ now >= MaxTime
  /\ comps[StoryUid].isVisible

\* a Toast rendered visible and not interacted with: no click, no change of
\* its props
LeftAlone == toasts[1].visible /\ ops = 0

\* every callback due by now has run
Settled == \A k \in Idx(timers) : timers[k].due > now

C18_NoTimerAfterRemoval ==
  \A k \in Idx(timers) :
    IF timers[k].kind = "removal"
    THEN timers[k].hits # {} => timers[k].hits \cap Uids(toasts) # {}
    ELSE timers[k].uid \in Uids(toasts)

\* C19: a record leaves the collection only in the step of a due removal
\* timer set for its own identifier; showToast keeps every held record as
\* it is and adds its record at the end; and no step drops or changes a
\* record whose identifier is not the one the step is about.
C19_NoLostUpdate ==
  [][/\ \A u \in Uids(toasts) \ Uids(toasts') :
          /\ last'.op = "removal"
          /\ ToastOf(toasts, u).id = last'.id
          /\ \E k \in Removals(timers) :
               IsNext(k) /\ timers[k].id = ToastOf(toasts, u).id
     /\ last'.op = "showToast" =>
          /\ Len(toasts') = Len(toasts) + 1
          /\ \A i \in Idx(toasts) : toasts'[i] = toasts[i]
          /\ toasts'[Len(toasts')].uid = last'.uid
     /\ \A i \in Idx(toasts) :
          (last'.op = "showToast" \/ toasts[i].id # last'.id) =>
            \E j \in Idx(toasts') : toasts'[j] = toasts[i]]_vars

\* a record enqueued while another identifier was being dismissed is held,
\* visible, right after the removal timer of that identifier has run
C19_Witness ==
  /\ last.op = "removal"
  /\ last.id \in gone
  /\ \E u \in Uids(toasts) :
       /\ life[u].born > 0
       /\ life[u].born < now
       /\ ToastOf(toasts, u).id # last.id
       /\ ToastOf(toasts, u).visible

\* C20: the records a removal timer deletes are among those its hideToast
\* call found in the collection: a removal timer set by a hideToast call on
\* an identifier that was unknown, closing or already removed deletes no
\* record enqueued after that call.
C20_RemovesOnlyItsOwn ==
  [][\A k \in Removals(timers) :
       (IsNext(k) /\ last'.op = "removal") =>
          Uids(toasts) \ Uids(toasts') \subseteq timers[k].hits]_vars

\* the pending 300 ms close timers of ts due at t
ClosesDue(ts, t) == {k \in Idx(ts) : ts[k].kind = "close" /\ ts[k].due = t}

\* C21: a click on the close button of a rendered Toast makes it leaving at
\* once, still rendered, invokes no onClose, and sets one timer due 300 ms
\* later; onClose is invoked only by such a timer at its due time, and in
\* that step the Toast becomes hidden.
C21_ClickClosesAfterDelay ==
  [][/\ last'.op = "click" =>
          /\ comps'[StoryUid].isLeaving /\ comps'[StoryUid].isVisible
          /\ life'[StoryUid].calls = life[StoryUid].calls
          /\ Cardinality(ClosesDue(timers', now + CLOSE_DELAY))
               = Cardinality(ClosesDue(timers, now + CLOSE_DELAY)) + 1
     /\ life'[StoryUid].calls # life[StoryUid].calls <=> last'.op = "close"
     /\ last'.op = "close" =>
          /\ life'[StoryUid].calls = life[StoryUid].calls + 1
          /\ ~comps'[StoryUid].isVisible
          /\ now' = now
          /\ Cardinality(ClosesDue(timers', now))
               = Cardinality(ClosesDue(timers, now)) - 1]_vars

\* one click at 0 ms: at 300 ms the Toast is hidden and onClose has been
\* invoked once
C21_Witness ==
  /\ last.op = "close"
  /\ ops = 1
  /\ now = CLOSE_DELAY
  /\ toasts[1].visible
  /\ ~comps[StoryUid].isVisible
  /\ life[StoryUid].calls = 1

\* C22: the Toast of a held record invokes onClose, that is hideToast with
\* the record's id, at most once, whatever the clicks on its close button
\* and whether or not its auto-close timer expires.
C22_OnCloseOnce == \A u \in DOMAIN life : life[u].calls <= 1

\* C23: when the visible prop of a Toast changes to false the Toast is
\* hidden and no auto-close timer is pending; when it changes to true the
\* Toast is visible and not leaving, and one auto-close timer is pending,
\* due a full duration later (none when duration is 0).
C23_FollowsVisibleProp ==
  [][last'.op = "setVisible" =>
       IF toasts'[1].visible
       THEN /\ comps'[StoryUid] = [isVisible |-> TRUE, isLeaving |-> FALSE]
            /\ IF toasts[1].duration = 0 THEN Autos(timers') = {}
               ELSE /\ Cardinality(Autos(timers')) = 1
                    /\ \A k \in Autos(timers') :
                         timers'[k].due = now + toasts[1].duration
       ELSE /\ ~comps'[StoryUid].isVisible
            /\ comps'[StoryUid].isLeaving = comps[StoryUid].isLeaving
            /\ Autos(timers') = {}]_vars

\* a Toast hidden through its prop is shown again later, with a fresh
\* auto-close timer
C23_Witness ==
  /\ last.op = "setVisible"
  /\ toasts[1].visible
  /\ now > 0
  /\ comps[StoryUid].isVisible
  /\ \E k \in Autos(timers) : timers[k].due = now + toasts[1].duration

\* C24: useToast outside a ToastProvider raises 'useToast must be used
\* within a ToastProvider' and returns no handle; inside a provider it
\* raises nothing and returns showToast and hideToast; the call changes
\* nothing of the provider; and showToast and hideToast are defined, with no
\* error outcome, for every request and identifier.
C24_UseToastGuard ==
  [][/\ last'.op = "useToast" =>
          /\ IF last'.inside
             THEN /\ last'.id = Omitted
                  /\ last'.handle = {"showToast", "hideToast"}
             ELSE /\ last'.id = USE_TOAST_ERROR
                  /\ last'.handle = {}
          /\ UNCHANGED <<toasts, comps, timers, life, gone>>
     /\ (ops < MaxLiveOps /\ CanAct) =>
          /\ \A options \in Requests, id \in Ids : ENABLED ShowToast(options, id)
          /\ \A id \in Ids : ENABLED HideToast(id)
     /\ last'.op \in {"showToast", "hideToast"} => last'.id \in Ids]_vars

\* useToast has thrown outside a provider
C24_Witness ==
  /\ last.op = "useToast"
  /\ ~last.inside
  /\ last.id = USE_TOAST_ERROR

\* C25: whenever Enter or Space is handled while the menu is open, handleSelect
\* is only called with an element of options: the index handed to it is within
\* 0..options.length - 1 and the handler does not throw.
C25_SelectInRange ==
  (last.op \in {"Enter", " "} /\ last.selected # NoIndex)
    => /\ last.selected \in 0..(Len(dropdown.options) - 1)
       /\ ~last.threw

\* C26: while the menu is open with n >= 1 options, ArrowDown moves the focused
\* index to the next option, from n - 1 to 0, ArrowUp moves it to the previous
\* option, from 0 to n - 1, and the focused index of an open menu is within
\* 0..n - 1 after every step.
C26_ArrowsWrap ==
  [][LET n == Len(dropdown.options) IN
     n >= 1 =>
       /\ last'.op = "ArrowDown"
            => dropdown'.focusedIndex = (dropdown.focusedIndex + 1) % n
       /\ last'.op = "ArrowUp"
            => dropdown'.focusedIndex = (dropdown.focusedIndex + n - 1) % n
       /\ last'.op \in {"ArrowDown", "ArrowUp"} => dropdown'.isOpen
       /\ dropdown'.isOpen => dropdown'.focusedIndex \in 0..(n - 1)]_vars

\* ArrowDown has wrapped from the last of three options to the first
C26_Witness ==
  /\ last.op = "ArrowDown"
  /\ dropdown.isOpen
  /\ Len(dropdown.options) = 3
  /\ dropdown.focusedIndex = 0

\* C27: a disabled option never changes the selection: no step hands the value
\* of a disabled option to onChange, and a click on a disabled option or Enter
\* or Space while one is focused invokes no onChange and leaves the value as
\* it was.
C27_DisabledNeverSelected ==
  [][LET options == dropdown.options
         focused == dropdown.focusedIndex + 1
     IN
     /\ (last'.changed # Omitted /\ last'.op # "clickClear")
          => /\ last'.selected \in 0..(Len(options) - 1)
             /\ ~options[last'.selected + 1].disabled
             /\ last'.changed = options[last'.selected + 1].value
             /\ dropdown'.value = last'.changed
     /\ (/\ last'.op \in {"Enter", " "}
         /\ focused \in 1..Len(options)
         /\ options[focused].disabled)
          => /\ last'.changed = Omitted
             /\ dropdown'.value = dropdown.value
     /\ last'.changed = Omitted => dropdown'.value = dropdown.value]_vars

\* Enter was pressed while the disabled option of the list was focused
C27_Witness ==
  /\ last.op = "Enter"
  /\ last.selected = 1
  /\ dropdown.options[2].disabled
  /\ last.changed = Omitted
  /\ ~last.threw

\* C28: the menu is closed after the selection of an enabled option (by click,
\* Enter or Space), after Escape, after Tab and after a mouse press outside the
\* component; a Dropdown with disabled = true is never open, whatever is
\* clicked.
C28_MenuCloses ==
  [][/\ (last'.op \in {"clickOption", "Enter", " "} /\ last'.changed # Omitted)
          => ~dropdown'.isOpen
     /\ last'.op \in {"Escape", "Tab", "mouseDownOutside"} => ~dropdown'.isOpen
     /\ dropdown.disabled => ~dropdown.isOpen /\ ~dropdown'.isOpen]_vars

\* the button of a disabled Dropdown was clicked, and the menu is closed
C28_Witness ==
  /\ last.op = "clickButton"
  /\ dropdown.disabled
  /\ ~dropdown.isOpen

TypeOK ==
  /\ DOMAIN comps = Uids(toasts)
  /\ DOMAIN life = Uids(toasts)
  /\ \A k \in 1..Len(timers) : timers[k].due >= now
====
